---- MODULE Spec2Model ----
(***************************************************************************)
(* Shield of Achilles page->scene compiler (src/build.py).                 *)
(*                                                                         *)
(* Spec       the build pipeline: main() run as a process over a source    *)
(*            directory and a dist/legos directory, possibly several times *)
(*            (each process start draws a fresh string-hash key).          *)
(* SpecParse  parse_legos' line loop as a pure function of the descriptor  *)
(*            text.                                                        *)
(* SpecStudio the script of the generated presentation page                *)
(*            (src/build_presentation.py): loadStudio, setMode and the     *)
(*            debounce timer.                                              *)
(*                                                                         *)
(* Conventions.  A text is a sequence of lines, a line a sequence of       *)
(* characters (one-character strings; "sup2" stands for U+00B2, a          *)
(* non-ASCII character for which str.isdigit() is True).  Normalised       *)
(* coordinates are the source's decimal literals in hundredths (0.05 is    *)
(* 5); for the seven template regions the double-precision products of     *)
(* the source and the exact rational products below have the same integer  *)
(* part.  Other fractions are fields named <field>100, in hundredths.      *)
(***************************************************************************)
EXTENDS Integers, Sequences, FiniteSets, TLC

VARIABLES
    srcPngs,      \* the *.png files of the source directory
    legosExists,  \* whether dist/legos exists
    legos,        \* dist/legos: descriptor file name -> text
    run,          \* number of the running process (1 = first build)
    hashSeed,     \* this process' string-hash key
    pc,           \* main()'s position
    images,       \* main(): images
    pages,        \* main(): pages
    cur,          \* main(): position of the for loop over pages (1-based)
    resolved,     \* page index -> what parse_legos returned in this process
    chosen,       \* page index -> the descriptor file parse_legos opened
    scene,        \* main(): scene, between generate_scene_json and write_scene
    scene_paths,  \* main(): scene_paths
    pageFiles,    \* dist/pages: file name -> the source image copied there
    sceneFiles,   \* dist/scenes: directory name -> content of scene.json
    manifestFile, \* dist/manifest.json
    text,         \* SpecParse: the descriptor text
    parsed,       \* SpecParse: what the line loop returned
    activeStudioId,  \* presentation page: let activeStudioId
    isTransitioning, \* presentation page: let isTransitioning
    timers,          \* pending setTimeout callbacks of loadStudio
    slots,           \* scene id -> content of #studio-slot-<id> .studio-wrapper
    bodyMode,        \* document.body.className, without "mode-"
    activeBtn,       \* the mode button carrying class "active"
    clipboard,       \* the scene whose MPD text the clipboard holds
    event            \* the last call or callback that ran

vars == <<srcPngs, legosExists, legos, run, hashSeed, pc, images, pages, cur,
          resolved, chosen, scene, scene_paths, pageFiles, sceneFiles,
          manifestFile, text, parsed, activeStudioId, isTransitioning,
          timers, slots, bodyMode, activeBtn, clipboard, event>>

buildVars == <<srcPngs, legosExists, legos, run, hashSeed, pc, images, pages,
               cur, resolved, chosen, scene, scene_paths, pageFiles,
               sceneFiles, manifestFile, text, parsed>>

studioVars == <<activeStudioId, isTransitioning, timers, slots, bodyMode,
                activeBtn, clipboard, event>>

----------------------------------------------------------------------------
(* Bounds *)

MaxPages == 2
MaxRuns == 2
MaxLines == 3
MaxScenes == 3

(* Program constants *)

SCENE_WIDTH == 1920
SCENE_HEIGHT == 1080

----------------------------------------------------------------------------
(* Values *)

\* Python's None, and a returned list, as one comparable shape.
None == [some |-> FALSE, lines |-> <<>>]
Some(lines) == [some |-> TRUE, lines |-> lines]

\* A file or document that does not exist.
NoFile == [exists |-> FALSE]

RECURSIVE Digits(_)
Digits(n) == IF n < 10 THEN <<n>> ELSE Append(Digits(n \div 10), n % 10)

\* f"{n:0<width>d}" for n >= 0
ZeroPad(n, width) ==
    LET d == Digits(n)
    IN  IF Len(d) >= width THEN d ELSE [k \in 1..(width - Len(d)) |-> 0] \o d

\* n // d: floor division, which differs from int(n / d) below zero
IntFloor(n, d) == n \div d

\* int(n / d): truncation toward zero
IntTrunc(n, d) == IF n >= 0 THEN n \div d ELSE -((-n) \div d)

\* round(n / d): nearest integer, ties to even
PyRound(n, d) ==
    LET f == n \div d
        r2 == 2 * (n % d)
    IN  IF r2 < d THEN f
        ELSE IF r2 > d THEN f + 1
        ELSE IF f % 2 = 0 THEN f ELSE f + 1

SeqToSet(s) == {s[k] : k \in 1..Len(s)}

----------------------------------------------------------------------------
(* Characters and lines *)

Whitespace == {" ", "\t"}
AsciiDigits == {"0", "1", "2", "3", "4", "5", "6", "7", "8", "9"}

\* str.isdigit() on one character
IsDigit(c) == c \in AsciiDigits \cup {"sup2"}

RECURSIVE LStrip(_)
LStrip(s) ==
    IF s # <<>> /\ Head(s) \in Whitespace THEN LStrip(Tail(s)) ELSE s

RECURSIVE RStrip(_)
RStrip(s) ==
    IF s # <<>> /\ s[Len(s)] \in Whitespace
    THEN RStrip(SubSeq(s, 1, Len(s) - 1))
    ELSE s

\* str.strip()
Strip(s) == RStrip(LStrip(s))

Marker == <<"-", "-", "-">>

\* stripped and (stripped[0].isdigit() or stripped.startswith('0'))
IsLDrawLine(stripped) ==
    stripped # <<>> /\ (IsDigit(stripped[1]) \/ stripped[1] = "0")

\* The for loop of parse_legos over the lines of the open file.
RECURSIVE ParseLoop(_, _, _)
ParseLoop(lines, in_ldraw_section, ldraw_lines) ==
    IF lines = <<>> THEN ldraw_lines
    ELSE LET stripped == Strip(Head(lines))
         IN  IF stripped = Marker
             THEN ParseLoop(Tail(lines), TRUE, ldraw_lines)
             ELSE IF in_ldraw_section /\ IsLDrawLine(stripped)
             THEN ParseLoop(Tail(lines), in_ldraw_section,
                            Append(ldraw_lines, stripped))
             ELSE ParseLoop(Tail(lines), in_ldraw_section, ldraw_lines)

ParseText(t) == ParseLoop(t, FALSE, <<>>)

----------------------------------------------------------------------------
(* generate_cutouts *)

TitleBar ==
    [id |-> "title-bar", x |-> 5, y |-> 2, w |-> 90, h |-> 12,
     depth |-> 200, label |-> "Title Region"]

regions ==
    << [x |-> 2,  y |-> 18, w |-> 28, h |-> 35, label |-> "Left Panel"],
       [x |-> 32, y |-> 18, w |-> 36, h |-> 35, label |-> "Center Panel"],
       [x |-> 70, y |-> 18, w |-> 28, h |-> 35, label |-> "Right Panel"],
       [x |-> 2,  y |-> 56, w |-> 45, h |-> 22, label |-> "Bottom Left"],
       [x |-> 50, y |-> 56, w |-> 48, h |-> 22, label |-> "Bottom Right"],
       [x |-> 35, y |-> 80, w |-> 30, h |-> 15, label |-> "Footer"] >>

\* f"region-{n}" for the n the template reaches
RegionId(n) ==
    <<"region-1", "region-2", "region-3", "region-4", "region-5",
      "region-6">>[n]

\* The region dict with the ordinal left out of its id
RegionCutoutSameId(i) ==
    LET r == regions[i + 1]
    IN  [id |-> RegionId(1), x |-> r.x, y |-> r.y, w |-> r.w, h |-> r.h,
         depth |-> 60 + (i * 30), label |-> r.label]

\* The dict appended for regions[i + 1] (i is enumerate's 0-based index).
RegionCutout(i) ==
    LET r == regions[i + 1]
    IN  [id |-> RegionId(i + 1), x |-> r.x, y |-> r.y, w |-> r.w, h |-> r.h,
         depth |-> 60 + (i * 30), label |-> r.label]

generate_cutouts(page_index) ==
    <<TitleBar>> \o [k \in 1..Len(regions) |-> RegionCutout(k - 1)]

----------------------------------------------------------------------------
(* generate_scene_json *)

\* hash(s) % 10 under the process' hash key.  CPython keys str hashes with a
\* value drawn at interpreter start (unless PYTHONHASHSEED fixes it); the
\* keyed hash itself is stood for by a mixing of the id's rank and the key.
IdRank(s) ==
    CASE s = "title-bar" -> 0
      [] s = "region-1" -> 1
      [] s = "region-2" -> 2
      [] s = "region-3" -> 3
      [] s = "region-4" -> 4
      [] s = "region-5" -> 5
      [] s = "region-6" -> 6
      [] OTHER -> 7

HashSeeds == {3, 7}

StrHashMod10(seed, s) == ((IdRank(s) + 1) * seed + seed * seed) % 10

Background ==
    [id |-> "background", type |-> "plane", texture |-> "page",
     size |-> <<SCENE_WIDTH, SCENE_HEIGHT>>,
     position |-> <<0, 0, 0>>, rotation |-> <<0, 0, 0>>,
     material |-> [transparent |-> FALSE, opacity100 |-> 100,
                   emissive100 |-> 2]]

\* The context cutout placed at the heuristic title bar's depth
TitleContextAtBarDepth ==
    [id |-> "title-context", type |-> "cutoutPlane", fromImage |-> "page",
     cutout |-> [x |-> 5, y |-> 2, w |-> 90, h |-> 12],
     position |-> <<0, 450, TitleBar.depth>>,
     size |-> <<1728, 129>>,
     material |-> [transparent |-> TRUE, opacity100 |-> 90,
                   emissive100 |-> 10]]

TitleContext ==
    [id |-> "title-context", type |-> "cutoutPlane", fromImage |-> "page",
     cutout |-> [x |-> 5, y |-> 2, w |-> 90, h |-> 12],
     position |-> <<0, 450, 100>>,
     size |-> <<1728, 129>>,
     material |-> [transparent |-> TRUE, opacity100 |-> 90,
                   emissive100 |-> 10]]

GeometrySnapPoints ==
    << [name |-> "Overview", cameraPos |-> <<0, 300, 800>>,
        target |-> <<0, 0, 0>>],
       [name |-> "Top Down", cameraPos |-> <<0, 800, 0>>,
        target |-> <<0, 0, 0>>],
       [name |-> "Triage (Left)", cameraPos |-> <<-400, 200, 400>>,
        target |-> <<-200, 0, 0>>],
       [name |-> "Output (Right)", cameraPos |-> <<400, 200, 400>>,
        target |-> <<200, 0, 0>>] >>

HeuristicSnapPoints ==
    << [name |-> "Front View", cameraPos |-> <<0, 0, 1200>>,
        target |-> <<0, 0, 0>>],
       [name |-> "Top Down", cameraPos |-> <<0, 800, 600>>,
        target |-> <<0, 0, 0>>],
       [name |-> "Left Angle", cameraPos |-> <<-600, 200, 1000>>,
        target |-> <<0, 0, 0>>],
       [name |-> "Right Angle", cameraPos |-> <<600, 200, 1000>>,
        target |-> <<0, 0, 0>>],
       [name |-> "Close Up", cameraPos |-> <<0, 0, 600>>,
        target |-> <<0, 0, 100>>] >>

\* if ldraw_data is not None
UseGeometryNotNone(ldraw_data) == ldraw_data.some

\* if ldraw_data and len(ldraw_data) > 0
UseGeometry(ldraw_data) ==
    ldraw_data.some /\ ldraw_data.lines # <<>> /\ Len(ldraw_data.lines) > 0

\* w, h, x, y of one cutout on the canvas
PixelW(cutout) == IntTrunc(cutout.w * SCENE_WIDTH, 100)
PixelH(cutout) == IntTrunc(cutout.h * SCENE_HEIGHT, 100)
PixelX(cutout) ==
    IntTrunc((2 * cutout.x + cutout.w - 100) * SCENE_WIDTH, 200)
PixelY(cutout) ==
    IntTrunc((100 - 2 * cutout.y - cutout.h) * SCENE_HEIGHT, 200)

\* The entity appended for one cutout in the fallback branch.
CutoutEntity(cutout, seed) ==
    [id |-> cutout.id, type |-> "cutoutPlane", fromImage |-> "page",
     cutout |-> [x |-> cutout.x, y |-> cutout.y, w |-> cutout.w,
                 h |-> cutout.h],
     position |-> <<PixelX(cutout), PixelY(cutout), cutout.depth>>,
     size |-> <<PixelW(cutout), PixelH(cutout)>>,
     material |-> [transparent |-> TRUE, alphaMode |-> "blend",
                   opacity100 |-> 95, emissive100 |-> 8],
     animation |-> [type |-> "float", amplitude |-> 3,
                    speed20 |-> 10 + StrHashMod10(seed, cutout.id)]]

\* for sp in reversed(snap_points)
TourReversed(snap_points) ==
    [k \in 1..Len(snap_points) |->
        [snapPoint |-> snap_points[Len(snap_points) + 1 - k].name,
         seconds |-> 3]]

\* for sp in snap_points[:-1]
TourDropLast(snap_points) ==
    [k \in 1..(Len(snap_points) - 1) |->
        [snapPoint |-> snap_points[k].name, seconds |-> 3]]

\* [{"snapPoint": sp["name"], "seconds": 3} for sp in snap_points]
Tour(snap_points) ==
    [k \in 1..Len(snap_points) |->
        [snapPoint |-> snap_points[k].name, seconds |-> 3]]

Lights ==
    << [type |-> "hemisphere", skyColor |-> "#c9a227",
        groundColor |-> "#050505", intensity100 |-> 50],
       [type |-> "directional", position |-> <<300, 800, 500>>,
        intensity100 |-> 120, color |-> "#ffffff"],
       [type |-> "point", position |-> <<-400, 300, 500>>,
        intensity100 |-> 80, color |-> "#c9a227"],
       [type |-> "point", position |-> <<400, -200, 500>>,
        intensity100 |-> 40, color |-> "#2dd4bf"] >>

\* generate_scene_json(page_info), given what its call of parse_legos
\* returned and the process' hash key.
generate_scene_json(page_info, ldraw_ret, seed) ==
    LET idx == page_info.index
        page_file == page_info.dest
        geometry == UseGeometry(ldraw_ret)
        ldraw_data == IF geometry THEN ldraw_ret.lines ELSE <<>>
        cutouts == generate_cutouts(idx)
        entities ==
            IF geometry
            THEN <<Background, TitleContext>>
            ELSE <<Background>> \o
                 [k \in 1..Len(cutouts) |-> CutoutEntity(cutouts[k], seed)]
        snap_points ==
            IF geometry THEN GeometrySnapPoints ELSE HeuristicSnapPoints
    IN  [id |-> ZeroPad(idx, 4),
         title |-> [page |-> idx, name |-> page_info.original.stem],
         sourceImage |-> [dir |-> "../pages/", file |-> page_file],
         units |-> [system |-> "pixels", scale |-> 1],
         camera |-> [type |-> "perspective",
                     position |-> snap_points[1].cameraPos,
                     target |-> snap_points[1].target,
                     fov |-> 50],
         environment |-> [background |-> "#050505",
                          fog |-> [enabled |-> TRUE, color |-> "#050505",
                                   near |-> 800, far |-> 3000]],
         lights |-> Lights,
         assets |-> [textures |-> << [id |-> "page",
                                      src |-> [dir |-> "../pages/",
                                               file |-> page_file]] >>,
                     ldraw |-> ldraw_data],
         entities |-> entities,
         navigation |-> [snapPoints |-> snap_points,
                         tour |-> Tour(snap_points)]]

----------------------------------------------------------------------------
(* The file system the build starts from *)

\* A *.png name of the source directory: its rank in lexical order, and
\* whether the path contains "dist" (such a name, rank 0, sorts first).
PngNames ==
    {[stem |-> r, dist |-> FALSE] : r \in 1..MaxPages}
        \cup {[stem |-> 0, dist |-> TRUE]}

\* scene_<digits>_<suffix>.legos; suffixes are named by their lexical rank.
Suffixes == {1, 2}
LegoNames ==
    {[digits |-> ZeroPad(i, 2), suffix |-> s] : i \in 1..MaxPages, s \in Suffixes}

\* Descriptor texts: one without a marker line, two with a body.
DescNoMarker == << <<"a">>, <<"1", " ", "a">> >>
DescA == << <<"a">>, Marker, <<"1", " ", "a">>, <<"a">> >>
DescB == << Marker, <<" ", "2", " ", "b", " ">> >>
Descriptors == {DescNoMarker, DescA, DescB}

\* The contents dist/legos may have: at most two descriptor files.
LegoDirs ==
    UNION {[S -> Descriptors] :
             S \in {T \in SUBSET LegoNames : Cardinality(T) <= 2}}

EmptyDir == [n \in {} |-> NoFile]

\* The directory d with file name written (created or overwritten).
WriteFile(d, name, content) ==
    [n \in DOMAIN d \cup {name} |-> IF n = name THEN content ELSE d[n]]

----------------------------------------------------------------------------
(* get_page_images, copy_pages *)

\* sorted(S) for a set of *.png names
RECURSIVE SortedNames(_)
SortedNames(S) ==
    IF S = {} THEN <<>>
    ELSE LET m == CHOOSE a \in S : \A b \in S : a.stem <= b.stem
         IN  <<m>> \o SortedNames(S \ {m})

get_page_images(dir) ==
    SelectSeq(SortedNames(dir), LAMBDA f : ~f.dist)

\* dest_name = f"{i}.png": the index without zero padding
DestNameUnpadded(i) == [stem |-> Digits(i), ext |-> ".png"]

\* dest_name = f"{i:04d}.png"
DestName(i) == [stem |-> ZeroPad(i, 4), ext |-> ".png"]

\* copy_pages numbering from enumerate's default start, 0
copy_pages_FromZero(imgs) ==
    [i \in 1..Len(imgs) |->
        [index |-> i - 1, original |-> imgs[i], dest |-> DestName(i - 1)]]

\* The list copy_pages returns.
copy_pages(imgs) ==
    [i \in 1..Len(imgs) |->
        [index |-> i, original |-> imgs[i], dest |-> DestName(i)]]

\* dist/pages after copy_pages' shutil.copy calls.
RECURSIVE CopiedInto(_, _, _)
CopiedInto(dir, imgs, i) ==
    IF i > Len(imgs) THEN dir
    ELSE CopiedInto(WriteFile(dir, DestName(i), imgs[i]), imgs, i + 1)

----------------------------------------------------------------------------
(* parse_legos *)

\* LEGOS_DIR.glob(f"scene_{index:02d}_*.legos") as a set of names
GlobMatches(index) ==
    {n \in DOMAIN legos : n.digits = ZeroPad(index, 2)}

\* The orders in which a directory listing may yield the names of S.
RECURSIVE Listings(_)
Listings(S) ==
    IF S = {} THEN {<<>>}
    ELSE UNION {{<<n>> \o l : l \in Listings(S \ {n})} : n \in S}

\* legos_file = matches[0]
FirstMatch(matches) == matches[1]

\* parse_legos returning [] where no candidate matches
parse_legos_EmptyList(index, matches) ==
    IF ~legosExists THEN None
    ELSE IF matches = <<>> THEN Some(<<>>)
    ELSE Some(ParseText(legos[FirstMatch(matches)]))

\* parse_legos(index), matches being what list(LEGOS_DIR.glob(pattern)) gave
parse_legos(index, matches) ==
    IF ~legosExists THEN None
    ELSE IF matches = <<>> THEN None
    ELSE Some(ParseText(legos[FirstMatch(matches)]))

\* The file parse_legos opened, if any.
OpenedFile(index, matches) ==
    IF ~legosExists \/ matches = <<>> THEN NoFile ELSE FirstMatch(matches)

----------------------------------------------------------------------------
(* write_scene, generate_manifest *)

\* scene_dir's name: f"{page_info['index']:04d}"
SceneDir(page_info) == ZeroPad(page_info.index, 4)

generate_manifest(pgs, scenes) ==
    LET n == IF Len(pgs) <= Len(scenes) THEN Len(pgs) ELSE Len(scenes)
    IN  [title |-> "Shield of Achilles Production Pipeline",
         version |-> "1.0.0",
         generated |-> "2026-01-14",
         totalPages |-> Len(pgs),
         scenes |-> [k \in 1..n |->
                       [id |-> ZeroPad(pgs[k].index, 4),
                        title |-> pgs[k].original.stem,
                        page |-> [dir |-> "pages/", file |-> pgs[k].dest],
                        scene |-> [dir |-> "scenes/",
                                   sub |-> ZeroPad(pgs[k].index, 4),
                                   file |-> "scene.json"]]]]

----------------------------------------------------------------------------
(* The presentation page: its scenes and its state after init() *)

\* The scene ids "01", "02", ... of the page, as digit sequences.
StudioIds == {ZeroPad(k, 2) : k \in 1..MaxScenes}

\* JavaScript's null.
Null == <<>>

\* What loadStudio may be called with: a scene id, or an id ("00") for
\* which the page has no studio slot.
NoSlotId == <<0, 0>>
CallIds == StudioIds \cup {NoSlotId}

\* What setMode may be called with: the three modes of the buttons, or a
\* mode for which there is no button.
Modes == {"2d", "3d", "compare"}
CallModes == Modes \cup {"other"}

\* The page once init() has run: every studio slot holds the
\* "Ready to Load" placeholder, nothing is active.
StudioIdle ==
    /\ activeStudioId = Null
    /\ isTransitioning = FALSE
    /\ timers = 0
    /\ slots = [id \in StudioIds |-> "ready"]
    /\ bodyMode = "2d"
    /\ activeBtn = "2d"
    /\ clipboard = Null
    /\ event = [op |-> "init", arg |-> Null]

----------------------------------------------------------------------------
(* The build process *)

Idle == text = <<>> /\ parsed = None

Init ==
    /\ srcPngs \in SUBSET PngNames
    /\ legosExists \in BOOLEAN
    /\ legos \in (IF legosExists THEN LegoDirs ELSE {EmptyDir})
    /\ run = 1
    /\ hashSeed \in HashSeeds
    /\ pc = "ensure_dirs"
    /\ images = <<>>
    /\ pages = <<>>
    /\ cur = 1
    /\ resolved = EmptyDir
    /\ chosen = EmptyDir
    /\ scene = NoFile
    /\ scene_paths = <<>>
    /\ pageFiles = EmptyDir
    /\ sceneFiles = EmptyDir
    /\ manifestFile = NoFile
    /\ Idle
    /\ StudioIdle

\* ensure_dirs(): dist/pages and dist/scenes exist afterwards (they hold
\* what earlier processes wrote); dist/legos is not created.
EnsureDirs ==
    /\ pc = "ensure_dirs"
    /\ pc' = "get_page_images"
    /\ UNCHANGED studioVars
    /\ UNCHANGED <<srcPngs, legosExists, legos, run, hashSeed, images, pages,
                   cur, resolved, chosen, scene, scene_paths, pageFiles,
                   sceneFiles, manifestFile, text, parsed>>

\* images = get_page_images(); if not images: return
GetPageImages ==
    /\ pc = "get_page_images"
    /\ images' = get_page_images(srcPngs)
    /\ pc' = IF images' = <<>> THEN "returned" ELSE "copy_pages"
    /\ UNCHANGED studioVars
    /\ UNCHANGED <<srcPngs, legosExists, legos, run, hashSeed, pages, cur,
                   resolved, chosen, scene, scene_paths, pageFiles,
                   sceneFiles, manifestFile, text, parsed>>

\* pages = copy_pages(images); scene_paths = []
CopyPages ==
    /\ pc = "copy_pages"
    /\ pages' = copy_pages(images)
    /\ pageFiles' = CopiedInto(pageFiles, images, 1)
    /\ scene_paths' = <<>>
    /\ cur' = 1
    /\ pc' = "generate"
    /\ UNCHANGED studioVars
    /\ UNCHANGED <<srcPngs, legosExists, legos, run, hashSeed, images,
                   resolved, chosen, scene, sceneFiles, manifestFile, text,
                   parsed>>

\* scene = generate_scene_json(page), parse_legos included
GenerateScene ==
    /\ pc = "generate"
    /\ cur <= Len(pages)
    /\ \E matches \in Listings(GlobMatches(pages[cur].index)) :
         LET idx == pages[cur].index
             ldraw_ret == parse_legos(idx, matches)
         IN  /\ resolved' = WriteFile(resolved, idx, ldraw_ret)
             /\ chosen' = WriteFile(chosen, idx, OpenedFile(idx, matches))
             /\ scene' = generate_scene_json(pages[cur], ldraw_ret, hashSeed)
    /\ pc' = "write"
    /\ UNCHANGED studioVars
    /\ UNCHANGED <<srcPngs, legosExists, legos, run, hashSeed, images, pages,
                   cur, scene_paths, pageFiles, sceneFiles, manifestFile,
                   text, parsed>>

\* scene_path = write_scene(page, scene); scene_paths.append(scene_path)
WriteScene ==
    /\ pc = "write"
    /\ sceneFiles' = WriteFile(sceneFiles, SceneDir(pages[cur]), scene)
    /\ scene_paths' = Append(scene_paths, SceneDir(pages[cur]))
    /\ scene' = NoFile
    /\ cur' = cur + 1
    /\ pc' = IF cur + 1 <= Len(pages) THEN "generate" ELSE "manifest"
    /\ UNCHANGED studioVars
    /\ UNCHANGED <<srcPngs, legosExists, legos, run, hashSeed, images, pages,
                   resolved, chosen, pageFiles, manifestFile, text, parsed>>

\* generate_manifest(pages, scene_paths)
GenerateManifest ==
    /\ pc = "manifest"
    /\ manifestFile' = generate_manifest(pages, scene_paths)
    /\ pc' = "done"
    /\ UNCHANGED studioVars
    /\ UNCHANGED <<srcPngs, legosExists, legos, run, hashSeed, images, pages,
                   cur, resolved, chosen, scene, scene_paths, pageFiles,
                   sceneFiles, text, parsed>>

\* python3 build.py is run again over the same directories: a new process,
\* with its own hash key, on the dist/ tree the earlier ones left.
StartProcess ==
    /\ pc \in {"done", "returned"}
    /\ run < MaxRuns
    /\ run' = run + 1
    /\ hashSeed' \in HashSeeds
    /\ pc' = "ensure_dirs"
    /\ images' = <<>>
    /\ pages' = <<>>
    /\ cur' = 1
    /\ resolved' = EmptyDir
    /\ chosen' = EmptyDir
    /\ scene' = NoFile
    /\ scene_paths' = <<>>
    /\ UNCHANGED studioVars
    /\ UNCHANGED <<srcPngs, legosExists, legos, pageFiles, sceneFiles,
                   manifestFile, text, parsed>>

Next ==
    \/ EnsureDirs
    \/ GetPageImages
    \/ CopyPages
    \/ GenerateScene
    \/ WriteScene
    \/ GenerateManifest
    \/ StartProcess

Spec == Init /\ [][Next]_vars

----------------------------------------------------------------------------
(* parse_legos' line loop over arbitrary descriptor texts *)

\* Lines a descriptor may hold: the marker, the marker with surrounding
\* blanks, digit-led lines (bare, indented, led by a non-ASCII digit),
\* a line of other text, and an empty line.
LineSamples ==
    { Marker,
      <<" ", "-", "-", "-", " ">>,
      <<"1", " ", "a">>,
      <<"\t", "0", " ">>,
      <<"sup2", "a">>,
      <<"a", "1">>,
      <<>> }

Texts == UNION {[1..n -> LineSamples] : n \in 0..MaxLines}

InitParse ==
    /\ text \in Texts
    /\ parsed = None
    /\ pc = "parse"
    /\ srcPngs = {}
    /\ legosExists = TRUE
    /\ legos = EmptyDir
    /\ run = 1
    /\ hashSeed \in HashSeeds
    /\ images = <<>>
    /\ pages = <<>>
    /\ cur = 1
    /\ resolved = EmptyDir
    /\ chosen = EmptyDir
    /\ scene = NoFile
    /\ scene_paths = <<>>
    /\ pageFiles = EmptyDir
    /\ sceneFiles = EmptyDir
    /\ manifestFile = NoFile
    /\ StudioIdle

\* with open(legos_file) as f: for line in f: ...; return ldraw_lines
ParseDescriptor ==
    /\ pc = "parse"
    /\ parsed' = Some(ParseText(text))
    /\ pc' = "parsed"
    /\ UNCHANGED studioVars
    /\ UNCHANGED <<srcPngs, legosExists, legos, run, hashSeed, images, pages,
                   cur, resolved, chosen, scene, scene_paths, pageFiles,
                   sceneFiles, manifestFile, text>>

NextParse == ParseDescriptor

SpecParse == InitParse /\ [][NextParse]_vars

----------------------------------------------------------------------------
(* Properties *)

\* The scene documents that exist: those on disk and the one just generated.
Docs ==
    {sceneFiles[d] : d \in DOMAIN sceneFiles}
        \cup (IF pc = "write" THEN {scene} ELSE {})

EntityIds(doc) == [k \in 1..Len(doc.entities) |-> doc.entities[k].id]
SnapNames(doc) ==
    [k \in 1..Len(doc.navigation.snapPoints) |->
        doc.navigation.snapPoints[k].name]
TourNames(doc) ==
    [k \in 1..Len(doc.navigation.tour) |-> doc.navigation.tour[k].snapPoint]

HasTitleContext(doc) ==
    \E k \in 1..Len(doc.entities) : doc.entities[k].id = "title-context"

\* The two shapes a scene document can have.
GeometryMode(doc) ==
    HasTitleContext(doc) /\ Len(doc.navigation.snapPoints) = 4
HeuristicMode(doc) ==
    ~HasTitleContext(doc) /\ Len(doc.navigation.snapPoints) = 5

\* generate_scene_json has returned for the page at the loop's position.
Generated == pc = "write"
CurIdx == pages[cur].index

HeuristicIds ==
    <<"background", "title-bar", "region-1", "region-2", "region-3",
      "region-4", "region-5", "region-6">>

\* C1: every scene document has exactly one of the two modes; it has
\* geometry mode exactly when parse_legos returned a non-empty list (not
\* None, not []), and assets.ldraw is non-empty exactly in geometry mode
\* (so it is the empty list in heuristic mode).
C1_ModePartition ==
    /\ \A doc \in Docs :
         /\ GeometryMode(doc) # HeuristicMode(doc)
         /\ (doc.assets.ldraw # <<>>) <=> GeometryMode(doc)
         /\ HeuristicMode(doc) => doc.assets.ldraw = <<>>
    /\ Generated =>
         (GeometryMode(scene) <=>
            (resolved[CurIdx].some /\ resolved[CurIdx].lines # <<>>))

\* C1 witness: a geometry-mode document is on disk and the page now
\* generated had a descriptor that parsed to the empty list.
C1_Witness ==
    /\ Generated
    /\ resolved[CurIdx] = Some(<<>>)
    /\ HeuristicMode(scene)
    /\ \E d \in DOMAIN sceneFiles : GeometryMode(sceneFiles[d])

\* C2: in every scene document the entity ids are pairwise distinct and
\* exactly one entity has id "background".
C2_EntityIdsUnique ==
    \A doc \in Docs :
        LET ids == EntityIds(doc)
        IN  /\ \A j, k \in 1..Len(ids) : j # k => ids[j] # ids[k]
            /\ Cardinality({k \in 1..Len(ids) : ids[k] = "background"}) = 1

\* C2 witness: documents of both modes exist, the heuristic one with its
\* eight entities.
C2_Witness ==
    /\ \E doc \in Docs : HeuristicMode(doc) /\ Len(doc.entities) = 8
    /\ \E doc \in Docs : GeometryMode(doc) /\ Len(doc.entities) = 2

\* C3 (as claimed): where generate_cutouts was called, the title bar's
\* depth is strictly greater than the depth of each of region-1..region-6.
C3_TitleAboveAllPanels ==
    (Generated /\ HeuristicMode(scene)) =>
        LET cutouts == generate_cutouts(CurIdx)
        IN  \A k \in 2..Len(cutouts) : cutouts[1].depth > cutouts[k].depth

\* The lexically first line equal exactly to "---", 0 if there is none.
ExactMarkerAt(t) ==
    IF \E k \in 1..Len(t) : t[k] = Marker
    THEN CHOOSE k \in 1..Len(t) :
            t[k] = Marker /\ \A j \in 1..(k - 1) : t[j] # Marker
    ELSE 0

AsciiDigitLed(line) ==
    \E k \in 1..Len(line) :
        /\ line[k] \in AsciiDigits
        /\ \A j \in 1..(k - 1) : line[j] \in Whitespace

\* The claimed result: the digit-led lines after the first exact marker,
\* stripped, in order.
C4_Expected(t) ==
    LET m == ExactMarkerAt(t)
        body == IF m = 0 THEN <<>> ELSE SubSeq(t, m + 1, Len(t))
        kept == SelectSeq(body, AsciiDigitLed)
    IN  [k \in 1..Len(kept) |-> Strip(kept[k])]

\* C4 (as claimed): the loop returns exactly the lines after the first line
\* equal exactly to "---" whose first non-blank character is an ASCII digit,
\* each stripped, in order.
C4_ParsesBodyDigitLines ==
    pc = "parsed" => parsed = Some(C4_Expected(text))

\* q is n/d with the fraction dropped (toward zero), for d > 0.
TowardZero(q, n, d) ==
    IF n >= 0 THEN q * d <= n /\ n < (q + 1) * d
    ELSE (q - 1) * d < n /\ n <= q * d

\* The cutoutPlane entities of a heuristic document, with the region each
\* was placed for.
Placed(doc, idx) ==
    {<<doc.entities[k + 1], generate_cutouts(idx)[k]>> :
        k \in 1..(Len(doc.entities) - 1)}

\* C5 (as claimed): every heuristic cutout has size
\* [round(w*1920), round(h*1080)] and position
\* [round((x + w/2 - 0.5)*1920), round((0.5 - y - h/2)*1080), depth].
C5_RoundedProjection ==
    (Generated /\ HeuristicMode(scene)) =>
        \A p \in Placed(scene, CurIdx) :
            LET e == p[1]
                c == p[2]
            IN  /\ e.size = <<PyRound(c.w * 1920, 100),
                              PyRound(c.h * 1080, 100)>>
                /\ e.position =
                     <<PyRound((2 * c.x + c.w - 100) * 1920, 200),
                       PyRound((100 - 2 * c.y - c.h) * 1080, 200),
                       c.depth>>

\* C5 (amended): every heuristic cutout's size and x, y position are the
\* same products with the fraction dropped (truncated toward zero, not
\* rounded), and z is the region's depth unchanged.
C5_TruncatedProjection ==
    (Generated /\ HeuristicMode(scene)) =>
        \A p \in Placed(scene, CurIdx) :
            LET e == p[1]
                c == p[2]
            IN  /\ TowardZero(e.size[1], c.w * 1920, 100)
                /\ TowardZero(e.size[2], c.h * 1080, 100)
                /\ TowardZero(e.position[1],
                              (2 * c.x + c.w - 100) * 1920, 200)
                /\ TowardZero(e.position[2],
                              (100 - 2 * c.y - c.h) * 1080, 200)
                /\ e.position[3] = c.depth

\* C5 witness: a heuristic document whose region-1 has a negative x with a
\* fraction (-652.8) and whose title bar has a height with one (129.6).
C5_Witness ==
    /\ Generated
    /\ HeuristicMode(scene)
    /\ scene.entities[2].size = <<1728, 129>>
    /\ scene.entities[3].position = <<-652, 156, 60>>

\* C6: for a page with no dist/legos directory or no matching descriptor,
\* parse_legos returns None and the scene has assets.ldraw = [] and exactly
\* 8 entities: the background, then cutoutPlanes title-bar, region-1..6.
C6_FallbackWhenAbsent ==
    (Generated /\ (~legosExists \/ GlobMatches(CurIdx) = {})) =>
        /\ resolved[CurIdx] = None
        /\ scene.assets.ldraw = <<>>
        /\ Len(scene.entities) = 8
        /\ EntityIds(scene) = HeuristicIds
        /\ scene.entities[1].type = "plane"
        /\ \A k \in 2..8 : scene.entities[k].type = "cutoutPlane"

\* C6 witness: dist/legos exists and holds a descriptor, but none for the
\* page generated.
C6_Witness ==
    /\ Generated
    /\ legosExists
    /\ DOMAIN legos # {}
    /\ GlobMatches(CurIdx) = {}
    /\ Len(scene.entities) = 8

\* C7 (as claimed): for a page with at most one matching descriptor, a
\* scene document written again, by this or a later process, is the
\* document already there, animation speeds included.
C7_SameDocumentEveryRun ==
    [][(/\ pc = "write"
        /\ Cardinality(GlobMatches(CurIdx)) <= 1
        /\ SceneDir(pages[cur]) \in DOMAIN sceneFiles)
          => sceneFiles'[SceneDir(pages[cur])]
               = sceneFiles[SceneDir(pages[cur])]]_vars

\* C8 (as claimed): a heuristic document's tour is Front View, Left Angle,
\* Close Up, Right Angle, Top Down; a geometry document's tour is its
\* snap points in declaration order.
C8_DesignerTourOrder ==
    \A doc \in Docs :
        /\ HeuristicMode(doc) =>
             TourNames(doc) = <<"Front View", "Left Angle", "Close Up",
                                "Right Angle", "Top Down">>
        /\ GeometryMode(doc) => TourNames(doc) = SnapNames(doc)

\* C8 (amended): in both modes the tour visits the snap points in
\* declaration order; in heuristic mode that is Front View, Top Down,
\* Left Angle, Right Angle, Close Up.
C8_DeclarationTourOrder ==
    \A doc \in Docs :
        /\ TourNames(doc) = SnapNames(doc)
        /\ HeuristicMode(doc) =>
             TourNames(doc) = <<"Front View", "Top Down", "Left Angle",
                                "Right Angle", "Close Up">>
        /\ GeometryMode(doc) =>
             TourNames(doc) = <<"Overview", "Top Down", "Triage (Left)",
                                "Output (Right)">>

\* C8 witness: a heuristic document with its five-stop tour is on disk
\* and a geometry document with its four-stop tour has been generated.
C8_Witness ==
    /\ Generated
    /\ GeometryMode(scene)
    /\ Len(scene.navigation.tour) = 4
    /\ \E d \in DOMAIN sceneFiles :
         /\ HeuristicMode(sceneFiles[d])
         /\ Len(sceneFiles[d].navigation.tour) = 5

\* C9: in every scene document the names the tour refers to are exactly
\* the names of the declared snap points.
C9_TourCoversSnapPoints ==
    \A doc \in Docs :
        SeqToSet(TourNames(doc)) = SeqToSet(SnapNames(doc))

\* C9 witness: the manifest is written and documents of both modes, with
\* non-empty tours, are on disk.
C9_Witness ==
    /\ pc = "done"
    /\ \E d \in DOMAIN sceneFiles :
         GeometryMode(sceneFiles[d]) /\ sceneFiles[d].navigation.tour # <<>>
    /\ \E d \in DOMAIN sceneFiles :
         HeuristicMode(sceneFiles[d]) /\ sceneFiles[d].navigation.tour # <<>>

\* The lexically first of a non-empty set of descriptor names for one index.
LexFirst(S) == CHOOSE n \in S : \A m \in S : n.suffix <= m.suffix

\* C10 (as claimed): when several descriptors match a page's pattern,
\* parse_legos opens and parses the lexically first, whatever the listing
\* order.
C10_LexicallyFirstMatch ==
    (Generated /\ Cardinality(GlobMatches(CurIdx)) > 1) =>
        /\ chosen[CurIdx] = LexFirst(GlobMatches(CurIdx))
        /\ resolved[CurIdx] =
             Some(ParseText(legos[LexFirst(GlobMatches(CurIdx))]))

\* The claimed body of a text: the lines after the first line equal exactly
\* to "---" (none if there is no such line).
ClaimedBody(t) ==
    IF ExactMarkerAt(t) = 0 THEN <<>>
    ELSE SubSeq(t, ExactMarkerAt(t) + 1, Len(t))

\* A page as copy_pages hands it to generate_scene_json.
SamplePage == copy_pages(<<[stem |-> 1, dist |-> FALSE]>>)[1]

\* C11 (as claimed): for a descriptor with no "---" marker line, or with no
\* digit-led line in its body, the line loop returns the empty list and
\* generate_scene_json builds the document it builds when parse_legos
\* returns None (heuristic mode, assets.ldraw = []).
C11_EmptyDescriptorFallsBack ==
    (/\ pc = "parsed"
     /\ \A k \in 1..Len(ClaimedBody(text)) :
           ~AsciiDigitLed(ClaimedBody(text)[k]))
       => /\ parsed = Some(<<>>)
          /\ generate_scene_json(SamplePage, parsed, hashSeed)
               = generate_scene_json(SamplePage, None, hashSeed)
          /\ generate_scene_json(SamplePage, parsed, hashSeed).assets.ldraw
               = <<>>

\* C11 on the descriptors that hold neither a blank-padded marker line nor
\* a line led by a non-ASCII digit: there the fallback is as claimed.
C11_PlainDescriptorFallsBack ==
    (/\ pc = "parsed"
     /\ \A k \in 1..Len(text) :
           /\ Strip(text[k]) = Marker => text[k] = Marker
           /\ Strip(text[k]) # <<>> => Strip(text[k])[1] # "sup2"
     /\ \A k \in 1..Len(ClaimedBody(text)) :
           ~AsciiDigitLed(ClaimedBody(text)[k]))
       => /\ parsed = Some(<<>>)
          /\ generate_scene_json(SamplePage, parsed, hashSeed)
               = generate_scene_json(SamplePage, None, hashSeed)

\* i written with four decimal digits, for 0 <= i < 10000.
FourDigits(i) ==
    <<(i \div 1000) % 10, (i \div 100) % 10, (i \div 10) % 10, i % 10>>

\* ../pages/<i as four digits>.png
OwnPagePath(i) ==
    [dir |-> "../pages/", file |-> [stem |-> FourDigits(i), ext |-> ".png"]]

\* C12: the document built for the page copy_pages numbered i has id i
\* zero-padded to 4 digits, and its sourceImage and its single texture both
\* refer to ../pages/<that id>.png, which holds the page's own image; so
\* does every scene.json on disk, in either mode.
C12_OwnSourceImage ==
    /\ Generated =>
         /\ scene.id = FourDigits(CurIdx)
         /\ scene.sourceImage = OwnPagePath(CurIdx)
         /\ scene.assets.textures =
              << [id |-> "page", src |-> OwnPagePath(CurIdx)] >>
         /\ scene.sourceImage.file \in DOMAIN pageFiles
         /\ pageFiles[scene.sourceImage.file] = pages[cur].original
         /\ \A k \in 1..Len(pages) :
              k # cur => pageFiles[scene.sourceImage.file] # pages[k].original
    /\ \A d \in DOMAIN sceneFiles :
         /\ sceneFiles[d].id = d
         /\ sceneFiles[d].sourceImage.file.stem = d
         /\ Len(sceneFiles[d].assets.textures) = 1
         /\ sceneFiles[d].assets.textures[1].src = sceneFiles[d].sourceImage

\* C12 witness: page 2 has been generated in heuristic mode while page 1's
\* document on disk is in geometry mode.
C12_Witness ==
    /\ Generated
    /\ CurIdx = 2
    /\ HeuristicMode(scene)
    /\ FourDigits(1) \in DOMAIN sceneFiles
    /\ GeometryMode(sceneFiles[FourDigits(1)])

\* The number of pages discovered: the *.png names without "dist".
Discovered == Cardinality({f \in srcPngs : ~f.dist})

FirstDirs(n) == [k \in 1..n |-> FourDigits(k)]

\* What holds at every position of main().
C13_Position ==
    /\ pc \in {"generate", "write", "manifest", "done"} =>
         /\ Discovered >= 1
         /\ Len(pages) = Discovered
         /\ \A k \in 1..Len(pages) : pages[k].index = k
    /\ pc \in {"generate", "write"} =>
         /\ cur \in 1..Discovered
         /\ scene_paths = FirstDirs(cur - 1)
         /\ \A k \in 1..(cur - 1) : FourDigits(k) \in DOMAIN sceneFiles
         /\ run = 1 => DOMAIN sceneFiles = SeqToSet(FirstDirs(cur - 1))
    /\ pc \in {"manifest", "done"} =>
         /\ scene_paths = FirstDirs(Discovered)
         /\ DOMAIN sceneFiles = SeqToSet(FirstDirs(Discovered))
    /\ (run = 1 /\ pc # "done") => manifestFile = NoFile
    /\ pc = "done" =>
         /\ manifestFile.totalPages = Discovered
         /\ Len(manifestFile.scenes) = Discovered
         /\ \A k \in 1..Discovered :
              /\ manifestFile.scenes[k].id = FourDigits(k)
              /\ manifestFile.scenes[k].scene =
                   [dir |-> "scenes/", sub |-> FourDigits(k),
                    file |-> "scene.json"]
    /\ Discovered = 0 =>
         /\ pc \in {"ensure_dirs", "get_page_images", "returned"}
         /\ sceneFiles = EmptyDir
         /\ manifestFile = NoFile

\* What holds of every step of main().
C13_Step ==
    \* a document is written only by write_scene, for the page at the
    \* loop's position, into that page's directory, and nothing else changes
    /\ sceneFiles' # sceneFiles =>
         /\ pc = "write"
         /\ scene.id = FourDigits(cur)
         /\ DOMAIN sceneFiles' = DOMAIN sceneFiles \cup {FourDigits(cur)}
         /\ sceneFiles'[FourDigits(cur)] = scene
         /\ \A d \in DOMAIN sceneFiles :
              d # FourDigits(cur) => sceneFiles'[d] = sceneFiles[d]
    \* generation of a page starts only once every earlier page of this
    \* process has been generated and written
    /\ (pc' = "generate" /\ run' = run) =>
         /\ scene_paths' = FirstDirs(cur' - 1)
         /\ \A k \in 1..(cur' - 1) : FourDigits(k) \in DOMAIN sceneFiles'
         /\ pc = "write" => cur' = cur + 1
    \* the document generated is that of the page at the loop's position
    /\ (pc = "generate" /\ pc' = "write") =>
         /\ cur' = cur
         /\ scene'.id = FourDigits(cur)
    \* the manifest is written only after the loop
    /\ manifestFile' # manifestFile => pc = "manifest"

\* C13: in a run of main over N >= 1 discovered pages the pages are
\* processed in ascending index order 1..N, page i's document is generated
\* and written to scenes/<i:04d>/scene.json before generation of page i+1
\* starts, one document is written per page, and the manifest written
\* afterwards lists those N scenes in index order with totalPages = N; with
\* no page discovered, no scene document and no manifest is written.
C13_SequentialBuild == []C13_Position /\ [][C13_Step]_vars

\* C13 witness: the first build of two discovered pages has written its
\* manifest of two scenes.
C13_Witness ==
    /\ pc = "done"
    /\ run = 1
    /\ Discovered = 2
    /\ Len(manifestFile.scenes) = 2
    /\ Len(scene_paths) = 2

\* C15: when parse_legos returned a non-empty list, the entities are
\* exactly the background followed by the cutoutPlane title-context at
\* z = 100 (not the heuristic title bar's 200), no heuristic region entity
\* is present, there are exactly four snap points, and assets.ldraw is the
\* list parse_legos returned, in the same order.
C15_GeometryScene ==
    (Generated /\ resolved[CurIdx].some /\ resolved[CurIdx].lines # <<>>) =>
        /\ EntityIds(scene) = <<"background", "title-context">>
        /\ scene.entities[2].type = "cutoutPlane"
        /\ scene.entities[2].position[3] = 100
        /\ scene.entities[2].position[3] # generate_cutouts(CurIdx)[1].depth
        /\ \A k \in 1..Len(scene.entities) :
             \A j \in 1..Len(generate_cutouts(CurIdx)) :
                scene.entities[k].id # generate_cutouts(CurIdx)[j].id
        /\ Len(scene.navigation.snapPoints) = 4
        /\ scene.assets.ldraw = resolved[CurIdx].lines

\* C15 witness: a descriptor whose body line is indented was parsed and
\* the page's document carries that line, stripped.
C15_Witness ==
    /\ Generated
    /\ chosen[CurIdx] # NoFile
    /\ legos[chosen[CurIdx]] = DescB
    /\ scene.assets.ldraw = << <<"2", " ", "b">> >>
    /\ Len(scene.entities) = 2

----------------------------------------------------------------------------
(* The presentation page's script *)

\* The debounce left out: no call is dropped
DebouncedNever(transitioning) == FALSE

\* if (isTransitioning) return;
Debounced(transitioning) == transitioning

\* The slots with no "Unload previous" step
UnloadedNothing(s, active, id) == s

\* "Unload previous safety": the slots once the previously active scene's
\* wrapper, if there is one and it is not id's, holds the "Terminated"
\* placeholder.
Unloaded(s, active, id) ==
    IF active # Null /\ active # id /\ active \in DOMAIN s
    THEN [s EXCEPT ![active] = "terminated"]
    ELSE s

\* copyText("mpd-" + id): navigator.clipboard.writeText may succeed or fail;
\* nothing is copied when the page has no such element.
CopyMpd(id) ==
    IF id \in StudioIds
    THEN clipboard' \in {clipboard, id}
    ELSE clipboard' = clipboard

\* window.loadStudio(id)
LoadStudio(id) ==
    /\ pc = "page"
    /\ event' = [op |-> "loadStudio", arg |-> id]
    /\ IF Debounced(isTransitioning)
       THEN UNCHANGED <<activeStudioId, isTransitioning, timers, slots,
                        clipboard>>
       ELSE /\ isTransitioning' = TRUE
            /\ timers' = timers + 1
            /\ activeStudioId' = id
            /\ IF id \in DOMAIN slots
               THEN /\ slots' = [Unloaded(slots, activeStudioId, id)
                                   EXCEPT ![id] = "studio"]
                    /\ CopyMpd(id)
               ELSE \* container is null: TypeError, the call ends here
                    /\ slots' = Unloaded(slots, activeStudioId, id)
                    /\ clipboard' = clipboard
    /\ UNCHANGED <<bodyMode, activeBtn>>
    /\ UNCHANGED buildVars

\* setTimeout(() => isTransitioning = false, 1000) fires
TimerExpires ==
    /\ pc = "page"
    /\ timers > 0
    /\ timers' = timers - 1
    /\ isTransitioning' = FALSE
    /\ event' = [op |-> "timeout", arg |-> Null]
    /\ UNCHANGED <<activeStudioId, slots, bodyMode, activeBtn, clipboard>>
    /\ UNCHANGED buildVars

\* window.setMode(mode)
SetMode(mode) ==
    /\ pc = "page"
    /\ event' = [op |-> "setMode", arg |-> mode]
    /\ bodyMode' = mode
    /\ IF mode \in Modes
       THEN /\ activeBtn' = mode
            /\ IF activeStudioId # Null /\ mode \in {"3d", "compare"}
               THEN CopyMpd(activeStudioId)
               ELSE clipboard' = clipboard
       ELSE \* no such button: TypeError after every button lost "active"
            /\ activeBtn' = Null
            /\ clipboard' = clipboard
    /\ UNCHANGED <<activeStudioId, isTransitioning, timers, slots>>
    /\ UNCHANGED buildVars

InitStudio ==
    /\ StudioIdle
    /\ pc = "page"
    /\ srcPngs = {}
    /\ legosExists = TRUE
    /\ legos = EmptyDir
    /\ run = 1
    /\ hashSeed = CHOOSE h \in HashSeeds : TRUE
    /\ images = <<>>
    /\ pages = <<>>
    /\ cur = 1
    /\ resolved = EmptyDir
    /\ chosen = EmptyDir
    /\ scene = NoFile
    /\ scene_paths = <<>>
    /\ pageFiles = EmptyDir
    /\ sceneFiles = EmptyDir
    /\ manifestFile = NoFile
    /\ Idle

NextStudio ==
    \/ \E id \in CallIds : LoadStudio(id)
    \/ \E mode \in CallModes : SetMode(mode)
    \/ TimerExpires

\* The browser runs a timer's callback once its delay has passed.
SpecStudio == InitStudio /\ [][NextStudio]_vars /\ WF_vars(TimerExpires)

----------------------------------------------------------------------------
(* Properties of the presentation page *)

\* The scenes whose studio slot holds a studio iframe.
LiveStudios == {id \in DOMAIN slots : slots[id] = "studio"}

\* This step is a call loadStudio(event'.arg) that was not dropped.
AcceptedLoad == event'.op = "loadStudio" /\ ~isTransitioning

\* This step is a call loadStudio(event'.arg) made while isTransitioning.
DroppedLoad == event'.op = "loadStudio" /\ isTransitioning

\* At most one slot holds an iframe, and it is activeStudioId's.
C14_OneLive ==
    /\ Cardinality(LiveStudios) <= 1
    /\ \A id \in LiveStudios : id = activeStudioId

\* An accepted load of another scene leaves the previously active scene's
\* slot, if it held an iframe, with the "Terminated" placeholder.
C14_Replaces ==
    (AcceptedLoad /\ activeStudioId \in LiveStudios
        /\ event'.arg # activeStudioId)
      => slots'[activeStudioId] = "terminated"

\* C14: after any sequence of loadStudio and setMode calls and timer
\* expiries at most one studio slot holds a live iframe, and it is the slot
\* of activeStudioId; loading a different scene replaces the previously
\* active scene's iframe with the "Terminated" placeholder.
C14_SingleActiveStudio == []C14_OneLive /\ [][C14_Replaces]_vars

\* C14 witness: a second scene was loaded after the first: one slot holds
\* the iframe, another the "Terminated" placeholder, and the mode has
\* since been switched.
C14_Witness ==
    /\ pc = "page"
    /\ Cardinality(LiveStudios) = 1
    /\ \E id \in DOMAIN slots : slots[id] = "terminated"
    /\ event.op = "setMode"
    /\ bodyMode = "3d"

\* C16: a loadStudio call made while isTransitioning leaves activeStudioId
\* and every studio slot unchanged; an accepted call sets activeStudioId to
\* its argument and sets isTransitioning; and isTransitioning always
\* becomes false again, so that a later call is accepted.
C16_Debounce ==
    /\ [][DroppedLoad => UNCHANGED <<activeStudioId, slots>>]_vars
    /\ [][AcceptedLoad =>
            (activeStudioId' = event'.arg /\ isTransitioning')]_vars
    /\ (isTransitioning ~> ~isTransitioning)

\* C16 witness: a call for another scene was dropped while the timer of
\* the accepted call was pending.
C16_Witness ==
    /\ pc = "page"
    /\ isTransitioning
    /\ timers = 1
    /\ event.op = "loadStudio"
    /\ activeStudioId \in StudioIds
    /\ event.arg \in StudioIds
    /\ event.arg # activeStudioId
    /\ slots[event.arg] = "ready"

====
